---- MODULE Spec2Model ----
(***************************************************************************)
(* Model of lambdas/es/indexer/document_queue.py: the in-memory            *)
(* DocumentQueue (append, append_document, send_all) and the retry         *)
(* protocol of send_all against the bulk endpoint of the search backend.   *)
(*                                                                         *)
(* Strings are sequences of pieces of text (the event prefixes are one      *)
(* piece each, the rest is one piece per character), so that startswith    *)
(* and string formatting are computed, not assumed.                        *)
(* A python dict is a TLA+ function whose DOMAIN is the dict's key set.    *)
(***************************************************************************)
EXTENDS Integers, Sequences, FiniteSets, TLC

VARIABLES
    queue,        \* self.queue
    size,         \* self.size
    op,           \* the call that produced this state
    outcome,      \* how that call ended: "ok" or the exception it raised
    sent,         \* the list_ argument of every bulk_send of that call, in order
    responses,    \* the failure list every bulk_send of that call returned
    entry_queue,  \* self.queue when that call was entered
    entry_size,   \* self.size when that call was entered
    args,         \* the arguments of that call, as a one-element sequence
    flushes,      \* how many times that call ran the body of send_all
    message,      \* what the message of the RetryError of that call holds
    context,      \* self.context
    client        \* the Elasticsearch client that call built, and what
                  \* get_time_remaining read and printed for it

vars ==
    <<queue, size, op, outcome, sent, responses, entry_queue, entry_size,
      args, flushes, message, context, client>>

----------------------------------------------------------------------------
(* Bounds of the model *)

\* most documents the environment appends between two flushes
MaxQueue == 2
\* longest failure list the backend returns to the first dispatch
MaxFailures == 2
\* document_queue.py:40 sets 100_000_000; scaled to the model's sizes
QUEUE_LIMIT_BYTES == 4
\* t4_lambda_shared.preview.ELASTIC_LIMIT_BYTES, scaled to the model's sizes
ELASTIC_LIMIT_BYTES == 2

\* document_queue.py:35, in seconds
MAX_BACKOFF == 360

----------------------------------------------------------------------------
(* Values *)

Min(a, b) == IF a <= b THEN a ELSE b

StartsWith(s, prefix) ==
    /\ Len(s) >= Len(prefix)
    /\ SubSeq(s, 1, Len(prefix)) = prefix

EVENT_PREFIX ==
    [Created |-> <<"ObjectCreated:">>, Removed |-> <<"ObjectRemoved:">>]

\* python values as passed for version_id
StrValue(s) == [type |-> "str", val |-> s]
NoneValue == [type |-> "NoneType", val |-> <<>>]
IntValue(digits) == [type |-> "int", val |-> digits]

\* Format giving the empty string for None
FormatNoneEmpty(v) ==
    IF v.type = "NoneType" THEN <<>> ELSE v.val

\* str.format of a value inside an f-string
Format(v) ==
    IF v.type = "NoneType" THEN <<"N", "o", "n", "e">> ELSE v.val

\* Body with the bucket as a part of the _id
BodyIdWithBucket(event_type, sz, bucket, key, text, version_id) ==
    [_id |-> bucket \o <<"/">> \o key \o <<":">> \o Format(version_id),
     _index |-> bucket,
     _op_type |-> IF StartsWith(event_type, EVENT_PREFIX["Removed"])
                  THEN "delete" ELSE "index",
     content |-> text,
     event |-> event_type,
     key |-> key,
     size |-> sz,
     version_id |-> version_id]

\* Body with the operation index whatever the event
BodyAlwaysIndex(event_type, sz, bucket, key, text, version_id) ==
    [_id |-> key \o <<":">> \o Format(version_id),
     _index |-> bucket,
     _op_type |-> "index",
     content |-> text,
     event |-> event_type,
     key |-> key,
     size |-> sz,
     version_id |-> version_id]

\* the dict built by append(), restricted to the keys the queue reads
Body(event_type, sz, bucket, key, text, version_id) ==
    [_id |-> key \o <<":">> \o Format(version_id),
     _index |-> bucket,
     _op_type |-> IF StartsWith(event_type, EVENT_PREFIX["Removed"])
                  THEN "delete" ELSE "index",
     content |-> text,
     event |-> event_type,
     key |-> key,
     size |-> sz,
     version_id |-> version_id]

----------------------------------------------------------------------------
(* DocumentQueue.append_document *)

\* Charge without the cap of min()
ChargeUncapped(doc) ==
    IF doc["content"] # <<>> THEN doc["size"] ELSE 0

\* what one document adds to self.size
Charge(doc) ==
    IF doc["content"] # <<>>
    THEN Min(doc["size"], ELASTIC_LIMIT_BYTES)
    ELSE 0

\* append_document putting the document at the head of the queue
append_documentFront(q, sz, doc) ==
    [queue |-> <<doc>> \o q, size |-> sz + Charge(doc)]

append_document(q, sz, doc) ==
    [queue |-> Append(q, doc), size |-> sz + Charge(doc)]

----------------------------------------------------------------------------
(* DocumentQueue.send_all *)

HasKey(d, k) == k \in DOMAIN d

\* {d["_id"]: d for d in self.queue}: a later document replaces an earlier
\* one that has the same _id
IdToDoc(q) ==
    [i \in {q[k]["_id"] : k \in DOMAIN q} |->
        q[CHOOSE k \in DOMAIN q :
            /\ q[k]["_id"] = i
            /\ \A j \in DOMAIN q : q[j]["_id"] = i => j <= k]]

\* the two ifs of lines 167-170: "delete" is read after "index"
Inner(error) ==
    IF HasKey(error, "delete") THEN error["delete"] ELSE error["index"]

\* ClassifyStep retrying the whole queue for every failure entry
ClassifyStepWhole(st, error, id_to_doc) ==
    [st EXCEPT !.send_again = st.queue, !.aliased = TRUE]

\* One iteration of the for loop of send_all.  st.send_again and st.queue are
\* the two lists; st.aliased says that they are one and the same list
\* object (after send_again = self.queue), so that an append to the one
\* is an append to the other.
ClassifyStep(st, error, id_to_doc) ==
    IF HasKey(error, "index") \/ HasKey(error, "delete")
    THEN LET inner == Inner(error) IN
         IF HasKey(inner, "_id")
         THEN IF inner["_id"] \in DOMAIN id_to_doc
              THEN LET doc == id_to_doc[inner["_id"]] IN
                   [st EXCEPT !.send_again = Append(@, doc),
                              !.queue = IF st.aliased THEN Append(@, doc) ELSE @]
              ELSE [st EXCEPT !.raised = "KeyError"]
         ELSE st
    ELSE [st EXCEPT !.send_again = st.queue, !.aliased = TRUE]

RECURSIVE Classify(_, _, _)
Classify(st, errors, id_to_doc) ==
    IF errors = <<>> \/ st.raised # "ok"
    THEN st
    ELSE Classify(ClassifyStep(st, Head(errors), id_to_doc), Tail(errors),
                  id_to_doc)

\* no RetryError, no message
NoMessage == [raw |-> <<>>, errors |-> <<>>, to_resend |-> <<>>]

\* lines 187-190: the message interpolates _, errors and send_again.  Both
\* bulk_send results are unpacked into the same names _ and errors, so at
\* the raise they hold the results of the dispatch made last.  raw lists
\* the dispatches whose first result (_) is in the message, by position.
RetryErrorMessage(snt, resp) ==
    [raw |-> <<Len(snt)>>,
     errors |-> resp[Len(resp)],
     to_resend |-> snt[Len(snt)]]

\* the context passed to the constructor: None, or the context object of
\* the invocation
NoContext == [type |-> "NoneType"]
LambdaContext == [type |-> "LambdaContext"]

\* the truth value of `self.context` in line 149
Truthy(ctx) == ctx.type # "NoneType"

\* get_time_remaining rounding the seconds up
get_time_remainingCeil(millis) ==
    LET time_remaining == (millis + 999) \div 1000 IN
    [time_remaining |-> time_remaining,
     printed |-> IF time_remaining < 30 THEN <<time_remaining>> ELSE <<>>]

\* lines 196-205, millis being what context.get_remaining_time_in_millis()
\* returned: the seconds returned, and the warning printed (the seconds it
\* names)
get_time_remaining(millis) ==
    LET time_remaining == millis \div 1000 IN
    [time_remaining |-> time_remaining,
     printed |-> IF time_remaining < 30 THEN <<time_remaining>> ELSE <<>>]

\* a call that builds no client
NoClient == [max_backoff |-> <<>>, millis |-> <<>>, printed |-> <<>>]

\* lines 146-155: the client of a dispatch.  clock is what the context may
\* answer for the remaining time; it is read only when there is a context.
Elasticsearch(ctx, clock) ==
    IF Truthy(ctx)
    THEN \E millis \in clock :
         LET r == get_time_remaining(millis) IN
         client' = [max_backoff |-> <<r.time_remaining>>,
                    millis |-> <<millis>>,
                    printed |-> r.printed]
    ELSE client' = [max_backoff |-> <<MAX_BACKOFF>>,
                    millis |-> <<>>,
                    printed |-> <<>>]

\* what get_remaining_time_in_millis may return: around one second, around
\* the 30 seconds of the warning, around MAX_BACKOFF, and the longest time
\* an invocation may be given
RemainingMillis == {0, 999, 1000, 29999, 30000, 360999, 361000, 900000}

\* The end of a call: the object's fields, and the record of the call.
Finish(call, q, sz, out, snt, resp) ==
    /\ context' = context
    /\ message' = IF out = "RetryError"
                  THEN RetryErrorMessage(snt, resp)
                  ELSE NoMessage
    /\ queue' = q
    /\ size' = sz
    /\ op' = call.name
    /\ outcome' = out
    /\ sent' = snt
    /\ responses' = resp
    /\ entry_queue' = queue
    /\ entry_size' = size
    /\ args' = call.args
    /\ flushes' = call.flushes

\* bulk_send(elastic, list_): the failure lists the backend may return.
\* elastic is the backend as the caller sees it: the sequence of the sets of
\* failure lists it may answer to the calls still to come.
bulk_send(elastic, list_) == Head(elastic)

\* SecondDispatch retrying once more when the retry fails
SecondDispatchAgain(call, q, sz, st, errors, elastic) ==
    \E errors2 \in bulk_send(Tail(elastic), st.send_again) :
    IF errors2 # <<>>
    THEN \E errors3 \in bulk_send(Tail(elastic), st.send_again) :
         IF errors3 # <<>>
         THEN Finish(call, st.queue, sz, "RetryError",
                     <<q, st.send_again, st.send_again>>,
                     <<errors, errors2, errors3>>)
         ELSE Finish(call, <<>>, 0, "ok",
                     <<q, st.send_again, st.send_again>>,
                     <<errors, errors2, errors3>>)
    ELSE Finish(call, <<>>, 0, "ok",
                <<q, st.send_again>>, <<errors, errors2>>)

\* SecondDispatch ignoring the failures of the retry
SecondDispatchSwallow(call, q, sz, st, errors, elastic) ==
    \E errors2 \in bulk_send(Tail(elastic), st.send_again) :
    Finish(call, <<>>, 0, "ok", <<q, st.send_again>>, <<errors, errors2>>)

\* SecondDispatch leaving the queue as it is after a retry without failure
SecondDispatchKeep(call, q, sz, st, errors, elastic) ==
    \E errors2 \in bulk_send(Tail(elastic), st.send_again) :
    IF errors2 # <<>>
    THEN Finish(call, st.queue, sz, "RetryError",
                <<q, st.send_again>>, <<errors, errors2>>)
    ELSE Finish(call, st.queue, sz, "ok",
                <<q, st.send_again>>, <<errors, errors2>>)

\* lines 185-193: the last retry, on a non-empty send_again
SecondDispatch(call, q, sz, st, errors, elastic) ==
    \E errors2 \in bulk_send(Tail(elastic), st.send_again) :
    IF errors2 # <<>>
    THEN Finish(call, st.queue, sz, "RetryError",
                <<q, st.send_again>>, <<errors, errors2>>)
    ELSE Finish(call, <<>>, 0, "ok",
                <<q, st.send_again>>, <<errors, errors2>>)

\* send_all dispatching only a queue that has reached the ceiling
send_allAtLimit(q, sz, elastic, call) ==
    IF q = <<>> \/ sz < QUEUE_LIMIT_BYTES
    THEN Finish(call, q, sz, "ok", <<>>, <<>>) /\ client' = NoClient
    ELSE
    /\ Elasticsearch(context, RemainingMillis)
    /\ \E errors \in bulk_send(elastic, q) :
       IF errors = <<>>
       THEN Finish(call, <<>>, 0, "ok", <<q>>, <<errors>>)
       ELSE
       LET st == Classify([send_again |-> <<>>, queue |-> q, aliased |-> FALSE,
                           raised |-> "ok"], errors, IdToDoc(q))
       IN
       IF st.raised # "ok"
       THEN Finish(call, st.queue, sz, st.raised, <<q>>, <<errors>>)
       ELSE IF st.send_again # <<>>
       THEN SecondDispatch(call, q, sz, st, errors, elastic)
       ELSE Finish(call, <<>>, 0, "ok", <<q>>, <<errors>>)

\* send_all on queue q and size sz, within the call `call`
send_all(q, sz, elastic, call) ==
    IF q = <<>>
    THEN Finish(call, q, sz, "ok", <<>>, <<>>) /\ client' = NoClient
    ELSE
    /\ Elasticsearch(context, RemainingMillis)
    /\ \E errors \in bulk_send(elastic, q) :
       IF errors = <<>>
       THEN Finish(call, <<>>, 0, "ok", <<q>>, <<errors>>)
       ELSE
       LET st == Classify([send_again |-> <<>>, queue |-> q, aliased |-> FALSE,
                           raised |-> "ok"], errors, IdToDoc(q))
       IN
       IF st.raised # "ok"
       THEN Finish(call, st.queue, sz, st.raised, <<q>>, <<errors>>)
       ELSE IF st.send_again # <<>>
       THEN SecondDispatch(call, q, sz, st, errors, elastic)
       ELSE Finish(call, <<>>, 0, "ok", <<q>>, <<errors>>)

----------------------------------------------------------------------------
(* DocumentQueue.append *)

\* the test of the event type accepting every event
RecognizedAny(event_type) == TRUE

\* lines 80-82: the event is a Created or a Removed event
Recognized(event_type) ==
    \/ StartsWith(event_type, EVENT_PREFIX["Created"])
    \/ StartsWith(event_type, EVENT_PREFIX["Removed"])

\* the threshold test with > for >=
OverLimitStrict(sz) == sz > QUEUE_LIMIT_BYTES

\* line 118: the threshold test of append
OverLimit(sz) == sz >= QUEUE_LIMIT_BYTES

\* the test of the type of version_id accepting any value
IsStrOrNoneAny(version_id) == TRUE

\* line 73: isinstance(version_id, (str, type(None)))
IsStrOrNone(version_id) == version_id.type \in {"str", "NoneType"}

AppendOf(a, n) == [name |-> "append", args |-> <<a>>, flushes |-> n]

\* append with the keyword arguments a
append(q, sz, a, elastic) ==
    IF ~IsStrOrNone(a.version_id)
    THEN Finish(AppendOf(a, 0), q, sz, "ValueError", <<>>, <<>>)
         /\ client' = NoClient
    ELSE IF ~Recognized(a.event_type)
    THEN Finish(AppendOf(a, 0), q, sz, "ok", <<>>, <<>>)
         /\ client' = NoClient
    ELSE
    LET body == Body(a.event_type, a.size, a.bucket, a.key, a.text,
                     a.version_id)
        added == append_document(q, sz, body)
    IN
    IF OverLimit(added.size)
    THEN send_all(added.queue, added.size, elastic, AppendOf(a, 1))
    ELSE Finish(AppendOf(a, 0), added.queue, added.size, "ok", <<>>, <<>>)
         /\ client' = NoClient

----------------------------------------------------------------------------
(* Inputs *)

Created == <<"ObjectCreated:", "P", "u", "t">>
Removed == <<"ObjectRemoved:", "D", "e", "l", "e", "t", "e">>
Unknown == <<"Event:", "W", "e", "N", "e", "v", "e", "r">>
EventTypes == {Created, Removed, Unknown}

KeyA == <<"a">>
KeyB == <<"b">>
Version1 == StrValue(<<"1">>)
Texts == {<<>>, <<"t">>}
\* an object smaller than the text cap and one larger than it
Sizes == {1, ELASTIC_LIMIT_BYTES + 1}
Bucket == <<"b", "k", "t">>

AppendArgs(events, sizes, keys, texts, versions) ==
    [event_type : events, size : sizes, bucket : {Bucket}, key : keys,
     text : texts, version_id : versions]

\* the documents append() builds from such arguments
Docs(sizes, keys, texts) ==
    {Body(a.event_type, a.size, a.bucket, a.key, a.text, a.version_id) :
        a \in AppendArgs({Created, Removed}, sizes, keys, texts, {Version1})}

\* Failure entries of a bulk response
IdA == <<"a", ":", "1">>
IdB == <<"b", ":", "1">>
\* the _id of no document that is ever queued
IdZ == <<"z", ":", "9">>
Status == [status |-> 400]
WithId(id) == [_id |-> id, status |-> 400]

FailureEntries ==
    {[index |-> WithId(IdA)], [index |-> WithId(IdB)], [index |-> WithId(IdZ)],
     [index |-> Status],
     [delete |-> WithId(IdA)], [delete |-> Status],
     [index |-> Status, delete |-> WithId(IdB)],
     [event_we_never_heard_of |-> WithId(IdA)]}

SeqsUpTo(S, n) == UNION {[1..m -> S] : m \in 0..n}

\* what the backend may answer to the retry: no failure, or one
SecondResponses == {<<>>, <<[index |-> WithId(IdA)]>>}

\* a backend that reports at most one failure per dispatch
ElasticOne == <<SeqsUpTo(FailureEntries, 1), SecondResponses>>
\* a backend that reports up to MaxFailures failures on the first dispatch
ElasticMany == <<SeqsUpTo(FailureEntries, MaxFailures), SecondResponses>>

----------------------------------------------------------------------------
(* The calls, as actions.  A call that raises ends the invocation: the      *)
(* exception propagates out of the handler.                                *)

\* DocumentQueue(context): the object after construction
DocumentQueue(ctx) ==
    /\ context = ctx
    /\ client = NoClient
    /\ queue = <<>>
    /\ size = 0
    /\ op = "init"
    /\ outcome = "ok"
    /\ sent = <<>>
    /\ responses = <<>>
    /\ entry_queue = <<>>
    /\ entry_size = 0
    /\ args = <<>>
    /\ flushes = 0
    /\ message = NoMessage

\* a queue constructed without context
Init == DocumentQueue(NoContext)

AppendCall(a, elastic) ==
    /\ outcome = "ok"
    /\ Len(queue) < MaxQueue
    /\ append(queue, size, a, elastic)

AppendDocumentCall(doc) ==
    /\ outcome = "ok"
    /\ Len(queue) < MaxQueue
    /\ LET r == append_document(queue, size, doc) IN
       /\ Finish([name |-> "append_document", args |-> <<doc>>,
                   flushes |-> 0],
                  r.queue, r.size, "ok", <<>>, <<>>)
       /\ client' = NoClient

SendAllCall(elastic) ==
    /\ outcome = "ok"
    /\ send_all(queue, size, elastic,
                [name |-> "send_all", args |-> <<>>, flushes |-> 1])

\* The accumulator: documents with and without text, of sizes below and
\* above the text cap; the backend reports at most one failure per dispatch.
DoAppend ==
    \E a \in AppendArgs(EventTypes, Sizes, {KeyA, KeyB}, Texts,
                        {Version1, IntValue(<<"7">>)}) :
        AppendCall(a, ElasticOne)

DoAppendDocument ==
    \E doc \in Docs(Sizes, {KeyA, KeyB}, Texts) : AppendDocumentCall(doc)

DoSendAll == SendAllCall(ElasticOne)

Next == DoAppend \/ DoAppendDocument \/ DoSendAll

Spec == Init /\ [][Next]_vars

\* The identifier: keys and version ids, among them no version id, the
\* empty one and the string None, each in events that differ in type,
\* bucket, text and size; the backend reports no failure.
Bucket2 == <<"o", "t", "h", "e", "r">>
VersionNone == StrValue(<<"N", "o", "n", "e">>)
VersionEmpty == StrValue(<<>>)
VersionIds == {NoneValue, Version1, VersionNone, VersionEmpty}

Variants ==
    {[event_type |-> Created, bucket |-> Bucket, text |-> <<>>, size |-> 1],
     [event_type |-> Removed, bucket |-> Bucket2, text |-> <<"t">>,
      size |-> ELASTIC_LIMIT_BYTES + 1],
     [event_type |-> Created, bucket |-> Bucket2, text |-> <<"t">>,
      size |-> 1]}

IdArgs ==
    {[event_type |-> v.event_type, size |-> v.size, bucket |-> v.bucket,
      key |-> k, text |-> v.text, version_id |-> vid] :
        v \in Variants, k \in {KeyA, KeyB}, vid \in VersionIds}

ElasticQuiet == <<{<<>>}, {<<>>}>>

IdAppend == \E a \in IdArgs : AppendCall(a, ElasticQuiet)

IdSendAll == SendAllCall(ElasticQuiet)

NextId == IdAppend \/ IdSendAll

SpecId == Init /\ [][NextId]_vars

\* The retry protocol: documents without text, so that only an explicit
\* send_all flushes; the backend reports up to MaxFailures failures.
RetryAppend ==
    \E a \in AppendArgs(EventTypes, {1}, {KeyA, KeyB}, {<<>>}, {Version1}) :
        AppendCall(a, ElasticMany)

RetrySendAll == SendAllCall(ElasticMany)

NextRetry == RetryAppend \/ RetrySendAll

SpecRetry == Init /\ [][NextRetry]_vars

\* The remaining-time hint: queues constructed with and without context,
\* documents with content so that append flushes at the ceiling.
InitTime == \E ctx \in {NoContext, LambdaContext} : DocumentQueue(ctx)

TimeAppend ==
    \E a \in AppendArgs({Created, Unknown}, Sizes, {KeyA}, {<<"t">>},
                        {Version1}) :
        AppendCall(a, ElasticOne)

TimeSendAll == SendAllCall(ElasticOne)

NextTime == TimeAppend \/ TimeSendAll

SpecTime == InitTime /\ [][NextTime]_vars

----------------------------------------------------------------------------
(* Properties.  They read the record of the last call: sent[i] is the      *)
(* argument of its i-th bulk_send and responses[i] the failure list that   *)
(* bulk_send returned.                                                     *)

Elems(list) == {list[i] : i \in DOMAIN list}
Ids(list) == {list[i]["_id"] : i \in DOMAIN list}
Count(list, d) == Cardinality({i \in DOMAIN list : list[i] = d})

\* the last call dispatched, and its first dispatch reported failures
FirstFailed == Len(responses) >= 1 /\ responses[1] # <<>>

\* C1: one call dispatches at most twice: the first dispatch and at most
\* one retry; there is no third dispatch.
C1_RetryBound == Len(sent) <= 2

\* a flush whose first dispatch and whose retry both reported failures
C1_Witness ==
    /\ op = "send_all"
    /\ Len(sent) = 2
    /\ responses[1] # <<>>
    /\ responses[2] # <<>>

\* C2: a first dispatch that reports failures is always followed by
\* exactly one more dispatch before the call ends.
C2_RetryAfterFailure == FirstFailed => Len(sent) = 2

\* C3: the call raises RetryError exactly when a second dispatch was made
\* and reported failures; when the first or the second dispatch reports no
\* failure the call returns normally.
C3_FatalIff ==
    /\ outcome = "RetryError" <=> (Len(responses) = 2 /\ responses[2] # <<>>)
    /\ (\E i \in DOMAIN responses : responses[i] = <<>>) => outcome = "ok"

\* a flush that ended with RetryError after two dispatches
C3_Witness ==
    /\ outcome = "RetryError"
    /\ Len(sent) = 2
    /\ Len(entry_queue) >= 2

\* a failure entry is resolved by the retry when the retry re-sent the
\* document it names or, when it names no document of the batch, the batch
NamesDocOf(e, batch) ==
    /\ DOMAIN e \subseteq {"index", "delete"}
    /\ DOMAIN e # {}
    /\ \A k \in DOMAIN e :
          "_id" \in DOMAIN e[k] /\ e[k]["_id"] \in Ids(batch)

ResolvedBy(e, batch, retry) ==
    IF NamesDocOf(e, batch)
    THEN \A k \in DOMAIN e : e[k]["_id"] \in Ids(retry)
    ELSE Elems(batch) \subseteq Elems(retry)

\* C4: a flush ends normally or with RetryError, and when it ends normally
\* either the first dispatch reported no failure or every failure entry of
\* the first dispatch was resolved by a retry that reported no failure.
C4_NoSilentLoss ==
    Len(sent) >= 1 =>
        /\ outcome \in {"ok", "RetryError"}
        /\ outcome = "ok" =>
              \/ responses[1] = <<>>
              \/ /\ Len(sent) = 2
                 /\ responses[2] = <<>>
                 /\ \A i \in DOMAIN responses[1] :
                       ResolvedBy(responses[1][i], sent[1], sent[2])

RECURSIVE Budget(_)
Budget(q) ==
    IF q = <<>>
    THEN 0
    ELSE (IF Head(q)["content"] = <<>>
          THEN 0
          ELSE Min(Head(q)["size"], ELASTIC_LIMIT_BYTES))
         + Budget(Tail(q))

\* C5: after calls that all returned normally, size is the sum of
\* min(size, ELASTIC_LIMIT_BYTES) over the queued documents that have
\* content; a document without content adds nothing.
C5_BudgetInvariant == outcome = "ok" => size = Budget(queue)

\* a queue holding a document without content and a document whose size
\* is above the cap
C5_Witness ==
    /\ outcome = "ok"
    /\ \E i, j \in DOMAIN queue :
          /\ queue[i]["content"] = <<>> /\ queue[i]["size"] > 0
          /\ queue[j]["content"] # <<>>
          /\ queue[j]["size"] > ELASTIC_LIMIT_BYTES

\* the last call is an append of a recognised event that did not raise
\* ValueError; Reached is the size the new document brings the queue to
AppendedRecognised ==
    /\ op = "append"
    /\ outcome # "ValueError"
    /\ \/ StartsWith(args[1].event_type, <<"ObjectCreated:">>)
       \/ StartsWith(args[1].event_type, <<"ObjectRemoved:">>)

Reached ==
    entry_size + (IF args[1].text = <<>>
                  THEN 0
                  ELSE Min(args[1].size, ELASTIC_LIMIT_BYTES))

\* C6: an append of a recognised event that brings size to
\* QUEUE_LIMIT_BYTES or above runs send_all once and dispatches, and when
\* it returns normally size is 0 and the queue is empty; an append that
\* leaves size below QUEUE_LIMIT_BYTES dispatches nothing.
C6_ThresholdTrigger ==
    AppendedRecognised =>
        IF Reached >= QUEUE_LIMIT_BYTES
        THEN /\ flushes = 1
             /\ Len(sent) >= 1
             /\ Len(sent[1]) = Len(entry_queue) + 1
             /\ outcome = "ok" => (size = 0 /\ queue = <<>>)
        ELSE /\ flushes = 0
             /\ sent = <<>>
             /\ size = Reached

\* an append whose document brings size exactly to the ceiling and is
\* flushed with the documents queued before it
C6_Witness ==
    /\ AppendedRecognised
    /\ Reached = QUEUE_LIMIT_BYTES
    /\ entry_queue # <<>>
    /\ flushes = 1
    /\ outcome = "ok"

IsUnknownShape(e) == ~("index" \in DOMAIN e) /\ ~("delete" \in DOMAIN e)

\* an index or delete entry that carries the _id of a document of batch
IsPerDocument(e, batch) ==
    /\ Cardinality(DOMAIN e) = 1
    /\ NamesDocOf(e, batch)

NamedIds(errors) ==
    UNION {{errors[i][k]["_id"] : k \in DOMAIN errors[i]} :
              i \in DOMAIN errors}

\* the first failure list of the last call is non-empty and made of
\* per-document entries only
AllPerDocument ==
    /\ FirstFailed
    /\ \A i \in DOMAIN responses[1] : IsPerDocument(responses[1][i], sent[1])

\* C7: when every entry of the first failure list is an index or delete
\* entry carrying the _id of a queued document, the second dispatch holds
\* documents of the batch with exactly the _ids those entries name, and
\* when it reports no failure the call returns normally after two
\* dispatches.
C7_PerDocumentAttribution ==
    AllPerDocument =>
        /\ Len(sent) = 2
        /\ Ids(sent[2]) = NamedIds(responses[1])
        /\ Elems(sent[2]) \subseteq Elems(sent[1])
        /\ responses[2] = <<>> => outcome = "ok"

\* one failure, on a:1, out of two documents sent; the retry of a:1 alone
\* reports no failure
C7_Witness ==
    /\ AllPerDocument
    /\ Len(sent[1]) = 2
    /\ Ids(sent[1]) = {IdA, IdB}
    /\ Len(responses[1]) = 1
    /\ Ids(sent[2]) = {IdA}
    /\ Len(sent[2]) = 1
    /\ outcome = "ok"

HasUnknownShape ==
    /\ FirstFailed
    /\ \E i \in DOMAIN responses[1] : IsUnknownShape(responses[1][i])

\* C8: when the first failure list holds an entry with neither an index nor
\* a delete key, a second dispatch is made and holds every document of the
\* batch, and when it reports failures the call raises RetryError.
C8_UnknownShapeWholeBatch ==
    HasUnknownShape =>
        /\ Len(sent) = 2
        /\ Elems(sent[1]) \subseteq Elems(sent[2])
        /\ responses[2] # <<>> => outcome = "RetryError"

\* an index or delete entry that names no document of batch
IsUnattributable(e, batch) ==
    /\ ~IsUnknownShape(e)
    /\ \/ ~("_id" \in DOMAIN Inner(e))
       \/ ~(Inner(e)["_id"] \in Ids(batch))

\* C9: an index or delete entry without _id, or with the _id of no queued
\* document, makes the call retry the whole batch; the call ends normally
\* or with RetryError.
C9_UnattributableWholeBatch ==
    (/\ FirstFailed
     /\ \E i \in DOMAIN responses[1] :
           IsUnattributable(responses[1][i], sent[1]))
    => /\ outcome \in {"ok", "RetryError"}
       /\ Len(sent) = 2
       /\ Elems(sent[1]) \subseteq Elems(sent[2])

\* C10: when an entry of the first failure list forces the retry of the
\* whole batch, the retry holds each document of the batch exactly as many
\* times as the batch does, wherever that entry stands in the list.
C10_WholeBatchWins ==
    (HasUnknownShape /\ Len(sent) = 2) =>
        \A d \in Elems(sent[1]) \cup Elems(sent[2]) :
            Count(sent[2], d) = Count(sent[1], d)

\* C11: the documents of the second dispatch have pairwise different _ids,
\* also when several entries of the first failure list name one _id.
C11_RetrySetDeduplicated ==
    Len(sent) = 2 =>
        \A i, j \in DOMAIN sent[2] :
            sent[2][i]["_id"] = sent[2][j]["_id"] => i = j

\* C12: the message of the RetryError names the raw response of the first
\* and of the second dispatch, the failure list and the documents to
\* resend.
C12_FatalMessage ==
    outcome = "RetryError" =>
        /\ {1, 2} \subseteq Elems(message.raw)
        /\ message.errors = responses[2]
        /\ message.to_resend = sent[2]

\* C13: a send_all on a non-empty queue that returns normally, after one
\* dispatch or after a retry that resolved the failures, leaves the queue
\* empty and size 0.
C13_ResetAfterSuccess ==
    (op = "send_all" /\ entry_queue # <<>> /\ outcome = "ok") =>
        (queue = <<>> /\ size = 0)

\* a send_all on a queue of non-zero size whose failures the retry resolved
C13_Witness ==
    /\ op = "send_all"
    /\ entry_size > 0
    /\ outcome = "ok"
    /\ Len(sent) = 2
    /\ responses[1] # <<>>

\* C14: send_all on an empty queue dispatches nothing and leaves queue and
\* size as they are; send_all on a non-empty queue dispatches the queue,
\* whatever its size.
C14_FlushAll ==
    op = "send_all" =>
        IF entry_queue = <<>>
        THEN /\ sent = <<>>
             /\ outcome = "ok"
             /\ queue = entry_queue
             /\ size = entry_size
        ELSE /\ Len(sent) >= 1
             /\ sent[1] = entry_queue

\* a send_all that dispatches a queue whose size is below the ceiling
C14_Witness ==
    /\ op = "send_all"
    /\ entry_queue # <<>>
    /\ entry_size > 0
    /\ entry_size < QUEUE_LIMIT_BYTES
    /\ Len(sent) >= 1

\* C15: an append that leaves size below the ceiling dispatches nothing and
\* puts its document at the end of the queue, and a send_all on a non-empty
\* queue to which the backend reports no failure makes one dispatch, of the
\* whole queue in its order.
C15_AppendsThenOneDispatch ==
    /\ (AppendedRecognised /\ Reached < QUEUE_LIMIT_BYTES) =>
          /\ sent = <<>>
          /\ queue = Append(entry_queue,
                            Body(args[1].event_type, args[1].size,
                                 args[1].bucket, args[1].key, args[1].text,
                                 args[1].version_id))
    /\ (/\ op = "send_all"
        /\ entry_queue # <<>>
        /\ \A i \in DOMAIN responses : responses[i] = <<>>) =>
          sent = <<entry_queue>>

\* MaxQueue different documents without content, appended without a
\* dispatch and sent by one dispatch
C15_Witness ==
    /\ op = "send_all"
    /\ Len(entry_queue) = MaxQueue
    /\ \A i \in DOMAIN entry_queue : entry_queue[i]["content"] = <<>>
    /\ entry_queue[1] # entry_queue[MaxQueue]
    /\ sent = <<entry_queue>>
    /\ outcome = "ok"

\* the last call is an append that put its document at the end of the
\* queue and left it there
Queued ==
    /\ AppendedRecognised
    /\ outcome = "ok"
    /\ Len(queue) = Len(entry_queue) + 1

\* C16: the document queued for a Removed event has the operation delete
\* and no content, whatever text was passed to append.
C16_DeletePurity ==
    (Queued /\ StartsWith(args[1].event_type, <<"ObjectRemoved:">>)) =>
        /\ queue[Len(queue)]["_op_type"] = "delete"
        /\ queue[Len(queue)]["content"] = <<>>

\* C17: a queued document has the operation delete exactly when its event
\* is a Removed event and the operation index exactly when it is a Created
\* event, and no other operation.
C17_OperationOfEvent ==
    Queued =>
        LET doc == queue[Len(queue)] IN
        /\ doc["event"] = args[1].event_type
        /\ doc["_op_type"] \in {"index", "delete"}
        /\ doc["_op_type"] = "delete"
              <=> StartsWith(args[1].event_type, <<"ObjectRemoved:">>)
        /\ doc["_op_type"] = "index"
              <=> StartsWith(args[1].event_type, <<"ObjectCreated:">>)

\* a Removed event queued behind a Created event
C17_Witness ==
    /\ Queued
    /\ Len(queue) = 2
    /\ queue[1]["_op_type"] = "index"
    /\ queue[2]["_op_type"] = "delete"
    /\ StartsWith(args[1].event_type, <<"ObjectRemoved:">>)

\* C20: an append whose version_id is neither a string nor None raises
\* ValueError, dispatches nothing and leaves queue and size as they were.
C20_MalformedVersion ==
    (op = "append" /\ args[1].version_id.type \notin {"str", "NoneType"}) =>
        /\ outcome = "ValueError"
        /\ sent = <<>>
        /\ queue = entry_queue
        /\ size = entry_size

\* an append with an integer version_id on a non-empty queue, for an event
\* that would have been queued
C20_Witness ==
    /\ op = "append"
    /\ args[1].version_id.type = "int"
    /\ StartsWith(args[1].event_type, <<"ObjectCreated:">>)
    /\ entry_queue # <<>>
    /\ outcome = "ValueError"

\* C18: two queued documents of the same key and version id have the same
\* _id, whatever their event type, bucket, text and size.
C18_IdempotentIdentifier ==
    \A i, j \in DOMAIN queue :
        (/\ queue[i]["key"] = queue[j]["key"]
         /\ queue[i]["version_id"] = queue[j]["version_id"])
        => queue[i]["_id"] = queue[j]["_id"]

\* two queued documents of one key and version id that differ in event
\* type, bucket, text and size
C18_Witness ==
    \E i, j \in DOMAIN queue :
        /\ queue[i]["key"] = queue[j]["key"]
        /\ queue[i]["version_id"] = queue[j]["version_id"]
        /\ queue[i]["event"] # queue[j]["event"]
        /\ queue[i]["_index"] # queue[j]["_index"]
        /\ queue[i]["content"] # queue[j]["content"]
        /\ queue[i]["size"] # queue[j]["size"]
        /\ queue[i]["_id"] = queue[j]["_id"]

\* C19 as stated: the _id is the key, ':' and the version id, None giving
\* the empty string.
C19_IdNoneEmpty ==
    Queued =>
        queue[Len(queue)]["_id"] =
            args[1].key \o <<":">>
            \o (IF args[1].version_id.type = "NoneType"
                THEN <<>>
                ELSE args[1].version_id.val)

\* C19: the _id is the key, ':' and the version id, None giving the text
\* None: a document of key k without version has the _id k:None.
C19_IdentifierDerivation ==
    Queued =>
        queue[Len(queue)]["_id"] =
            args[1].key \o <<":">>
            \o (IF args[1].version_id.type = "NoneType"
                THEN <<"N", "o", "n", "e">>
                ELSE args[1].version_id.val)

\* a document of key a and no version, queued with the _id a:None
C19_Witness ==
    /\ Queued
    /\ args[1].version_id = NoneValue
    /\ args[1].key = KeyA
    /\ queue[Len(queue)]["_id"] = <<"a", ":", "N", "o", "n", "e">>

\* the last call is an append of an event that is neither Created nor
\* Removed
AppendedUnrecognised ==
    /\ op = "append"
    /\ ~StartsWith(args[1].event_type, <<"ObjectCreated:">>)
    /\ ~StartsWith(args[1].event_type, <<"ObjectRemoved:">>)

Skipped ==
    /\ outcome = "ok"
    /\ sent = <<>>
    /\ flushes = 0
    /\ queue = entry_queue
    /\ size = entry_size

\* C21 as stated: an append of an event that is neither Created nor Removed
\* returns normally whatever its other arguments, queues nothing, leaves
\* queue and size as they were and dispatches nothing.
C21_SkippedWhateverFields == AppendedUnrecognised => Skipped

\* C21: an append of an event that is neither Created nor Removed, with a
\* version_id that is a string or None, returns normally, queues nothing,
\* leaves queue and size as they were and dispatches nothing; version_id is
\* tested before the event type.
C21_UnknownEventSkipped ==
    (AppendedUnrecognised /\ args[1].version_id.type \in {"str", "NoneType"})
    => Skipped

\* an unknown event with text, skipped on a queue that holds a document
\* with content
C21_Witness ==
    /\ AppendedUnrecognised
    /\ args[1].version_id.type = "str"
    /\ args[1].text # <<>>
    /\ entry_queue # <<>>
    /\ entry_size > 0
    /\ Skipped

\* C25: when send_all raises RetryError, queue and size are what they were
\* when send_all was entered: the same documents, in the same order, with
\* the same total.
C25_NoMutationOnFatal ==
    (op = "send_all" /\ outcome = "RetryError") =>
        /\ queue = entry_queue
        /\ size = entry_size

\* C26: when every entry of the first failure list is an index or delete
\* entry carrying the _id of a queued document, each entry that names a
\* document of the batch by _id and operation has that document, the one
\* with that _id and that _op_type, in the second dispatch.
C26_ResendsFailedDocument ==
    (AllPerDocument /\ Len(sent) = 2) =>
        \A i \in DOMAIN responses[1] :
            \A k \in DOMAIN responses[1][i] :
                (\E d \in Elems(sent[1]) :
                    /\ d["_id"] = responses[1][i][k]["_id"]
                    /\ d["_op_type"] = k)
                => \E d \in Elems(sent[2]) :
                    /\ d["_id"] = responses[1][i][k]["_id"]
                    /\ d["_op_type"] = k

\* C27: between calls, after calls that all returned normally, size is
\* strictly below QUEUE_LIMIT_BYTES.
C27_MemoryBound == outcome = "ok" => size < QUEUE_LIMIT_BYTES

\* C29: two queued documents that differ in key or in version id, None
\* being different from every string, have different _ids.
C29_IdentifierInjective ==
    \A i, j \in DOMAIN queue :
        (\/ queue[i]["key"] # queue[j]["key"]
         \/ queue[i]["version_id"] # queue[j]["version_id"])
        => queue[i]["_id"] # queue[j]["_id"]

\* the last call built a client
ClientBuilt == client.max_backoff # <<>>

\* the last call read a remaining time below 30 seconds
LowTime == client.millis # <<>> /\ client.millis[1] < 30000

\* C22: a call that dispatches gives its client the backoff ceiling
\* floor(remaining milliseconds / 1000) when the queue has a context and
\* MAX_BACKOFF when it has none; when the remaining time is below 30
\* seconds a warning is printed and the dispatch is made all the same, the
\* call returning normally when the dispatch reports no failure.
C22_RemainingTimeHint ==
    /\ Len(sent) >= 1 =>
          /\ Len(client.max_backoff) = 1
          /\ IF context = NoContext
             THEN client.max_backoff[1] = MAX_BACKOFF
             ELSE /\ Len(client.millis) = 1
                  /\ client.max_backoff[1] * 1000 <= client.millis[1]
                  /\ client.millis[1] < (client.max_backoff[1] + 1) * 1000
    /\ LowTime =>
          /\ client.printed # <<>>
          /\ Len(sent) >= 1
          /\ sent[1] # <<>>
          /\ responses[1] = <<>> => outcome = "ok"

\* an append that reaches the ceiling with 29.999 seconds left: the client
\* gets the backoff ceiling 29, the warning is printed and the queue is
\* dispatched
C22_Witness ==
    /\ op = "append"
    /\ context = LambdaContext
    /\ client.millis = <<29999>>
    /\ client.max_backoff = <<29>>
    /\ client.printed # <<>>
    /\ Len(sent) = 1
    /\ Len(sent[1]) = 2
    /\ outcome = "ok"

\* C28: the backoff ceiling given to the client is at most MAX_BACKOFF and
\* greater than 0, whatever remaining time the context reports.
C28_HintOnlyShrinks ==
    ClientBuilt =>
        /\ client.max_backoff[1] <= MAX_BACKOFF
        /\ client.max_backoff[1] > 0

====
